---- MODULE Spec2Model ----
(***************************************************************************)
(* Squad optimizer of the FPL bot: select_fpl_squad of                     *)
(* src/src/select_fpl_squad.py.  The function reduces the caller's table   *)
(* to one row per player, builds a 0/1 linear program with PuLP and lets   *)
(* CBC solve it.  The linear program is modelled as data (an objective and *)
(* a list of linear constraints over one binary variable per index label)  *)
(* and the solver as an exhaustive search over the assignments.            *)
(*                                                                         *)
(* A row of the caller's table has the columns id_player,                  *)
(* player_position, team_name, now_cost, metric and round (a column of the *)
(* gameweek history that select_fpl_squad does not keep).  web_name and    *)
(* chance_of_playing_next_round are carried by the code but never read by  *)
(* the program it builds; they are left out of the rows.  A cell of        *)
(* now_cost or of the metric is a number or a string; the metric is on an  *)
(* integer scale.                                                          *)
(***************************************************************************)
EXTENDS Integers, Sequences, FiniteSets, TLC

VARIABLES fpc,           \* where get_fpl_data stands
          bootstrap,     \* how the bootstrap-static request ended
          player_ids,    \* the argument of get_all_gameweek_histories
          started,       \* how many ids the executor has handed to a worker
          fetched,       \* per id of player_ids: the state of its fetch
          requested,     \* the ids of the element-summary requests sent
          overtaken,     \* a fetch has completed before an earlier one
          printed,       \* what the except clauses have printed
          returned       \* what get_fpl_data returned or raised

VARIABLES frame_call,    \* a call of one of the table functions
          frame_out      \* what the call returned

VARIABLES exp_call,      \* the rows progress_apply walks over, and the revision
          exp_out        \* the expected_points column it makes

VARIABLES table,         \* the caller's player table (argument df)
          args,          \* the quotas and the budget cap of the call
          team_cap,      \* the team cap the caller has in mind: the function
                         \* has no parameter that could carry it
          pc,            \* "idle" before the call, "done" after it
          df,            \* the function's own table, indexed by id_player
          problem,       \* prob, the LpProblem handed to the solver last
          solves,        \* how often the call has run prob.solve
          status,        \* LpStatus[prob.status] after prob.solve
          selected_ids,  \* the local list selected_ids
          result,        \* what the call returned
          calls,         \* the calls that run side by side, each with its
                         \* own arguments and locals
          files,         \* the solver's temporary files, by name
          revision,      \* the main() that runs: "v1r0" or "v2r0"
          csv,           \* the squad file main has written, if any
          email,         \* the squad e-mail main has sent, if any
          raised         \* the exception that ended main, or "none"

main_vars == <<revision, csv, email, raised>>

\* the variables of the subsystems other than the optimizer
fetch_vars == <<fpc, bootstrap, player_ids, started, fetched, requested,
                overtaken, printed, returned>>

frames_vars == <<frame_call, frame_out>>

exp_vars == <<exp_call, exp_out>>

rest_vars == <<main_vars, fetch_vars, frames_vars, exp_vars>>

vars == <<table, args, team_cap, pc, df, problem, solves, status, selected_ids,
          result, calls, files, rest_vars>>

-----------------------------------------------------------------------------
(* Bounds of the model *)

MaxPlayers == 3      \* players of a pool in which the budget matters
MaxTeamPlayers == 4  \* players of a pool in which the teams matter
MaxDupPlayers == 2   \* players of a table with one row per gameweek
MaxCopies == 2       \* rows of one player in such a table
MaxTextPlayers == 2  \* players of a table with string cells
MaxCost == 2         \* now_cost ranges over 1..MaxCost
MaxMetric == 1       \* the metric ranges over 0..MaxMetric
MaxQuota == 2        \* num_gks and num_defs range over 0..MaxQuota
MaxMngs == 1         \* num_mngs ranges over 0..MaxMngs
MaxBudget == 4       \* max_value ranges over 1..MaxBudget
MaxTeamCap == 4      \* a caller's team cap ranges over 1..MaxTeamCap

(* Program constants *)

TeamCap == 3             \* "<= 3" of the team constraints
DefaultMaxValue == 1000  \* default of the parameter max_value

-----------------------------------------------------------------------------
(* Generic helpers *)

RECURSIVE SumSeq(_)
SumSeq(s) == IF s = <<>> THEN 0 ELSE Head(s) + SumSeq(Tail(s))

RECURSIVE Flatten(_)
Flatten(ss) == IF ss = <<>> THEN <<>> ELSE Head(ss) \o Flatten(Tail(ss))

Range(s) == {s[i] : i \in 1..Len(s)}

Occurrences(s, v) == Cardinality({i \in 1..Len(s) : s[i] = v})

-----------------------------------------------------------------------------
(* pandas operations used by select_fpl_squad *)

\* as DropDuplicates, had line 45 not called drop_duplicates
DropDuplicates_Omitted(t) == t

\* DataFrame.drop_duplicates(): keeps the first of every group of equal rows
DropDuplicates(t) ==
    LET F[i \in 0..Len(t)] ==
          IF i = 0 THEN <<>>
          ELSE IF \E j \in 1..(i-1) : t[j] = t[i] THEN F[i-1]
               ELSE Append(F[i-1], t[i])
    IN  F[Len(t)]

\* df.index after set_index('id_player'): the labels, row by row
Index(d) == [r \in 1..Len(d) |-> d[r].id_player]

\* df[df[col] == v].index.tolist()
IndexWhere(d, col, v) ==
    LET Hit(row) == row[col] = v
    IN  Index(SelectSeq(d, Hit))

\* df[col].unique(): the distinct values in order of first appearance
Unique(d, col) ==
    LET F[i \in 0..Len(d)] ==
          IF i = 0 THEN <<>>
          ELSE IF \E j \in 1..(i-1) : d[j][col] = d[i][col] THEN F[i-1]
               ELSE Append(F[i-1], d[i][col])
    IN  F[Len(d)]

\* df.loc[i]: every row that carries the label i
RowsAt(d, i) ==
    LET Hit(row) == row.id_player = i
    IN  SelectSeq(d, Hit)

\* df.loc[i, col] as it enters a sum (one value when the label is unique)
LocSum(d, i, col) ==
    LET rows == RowsAt(d, i)
    IN  SumSeq([r \in 1..Len(rows) |-> rows[r][col]])

\* df[cols_to_keep]: the column round is not kept
KeepCols(row) ==
    [id_player |-> row.id_player, player_position |-> row.player_position,
     team_name |-> row.team_name, now_cost |-> row.now_cost,
     metric |-> row.metric]

\* cells: a number, or a string
Num(n) == [kind |-> "number", num |-> n]
Str(t) == [kind |-> "string", text |-> t]

\* the strings pd.to_numeric parses, with their values
NumericStrings == ("0" :> 0) @@ ("1" :> 1) @@ ("2" :> 2) @@ ("3" :> 3)

\* pd.to_numeric accepts the cell
IsNumeric(cell) ==
    cell.kind = "number" \/ cell.text \in DOMAIN NumericStrings

\* pd.to_numeric(cell) for a cell it accepts
ToNumeric(cell) ==
    IF cell.kind = "number" THEN cell.num ELSE NumericStrings[cell.text]

\* reset_index(drop=True) of an id_player-indexed frame: the label is dropped
DropIndex(row) ==
    [player_position |-> row.player_position, team_name |-> row.team_name,
     now_cost |-> row.now_cost, metric |-> row.metric]

\* df.loc[ids].reset_index(drop=True)
LocRows(d, ids) ==
    LET rows == Flatten([k \in 1..Len(ids) |-> RowsAt(d, ids[k])])
    IN  [r \in 1..Len(rows) |-> DropIndex(rows[r])]

-----------------------------------------------------------------------------
(* The linear program: PuLP objects as data *)

\* the keys of LpVariable.dicts('x', player_ids): one variable per label
Variables(d) == Range(Index(d))

RECURSIVE SumOver(_, _)
SumOver(S, f) ==
    IF S = {} THEN 0
    ELSE LET v == CHOOSE w \in S : TRUE
         IN  f[v] + SumOver(S \ {v}, f)

\* lpSum(df.loc[i, col] * x[i] for i in ids): the coefficient of each variable
LpSumLoc(d, ids, col) ==
    [v \in Variables(d) |-> Occurrences(ids, v) * LocSum(d, v, col)]

\* lpSum(x[i] for i in ids)
LpSumX(d, ids) == [v \in Variables(d) |-> Occurrences(ids, v)]

\* positions = {'GKP': num_gks, ...}, in the order of the dict
Positions == <<"GKP", "DEF", "MID", "FWD", "MNG">>

\* as PositionCount, had the dict of line 69 said 'MNG': num_gks
PositionCount_MngAsGks(a, pos) ==
    CASE pos = "GKP" -> a.num_gks
      [] pos = "DEF" -> a.num_defs
      [] pos = "MID" -> a.num_mids
      [] pos = "FWD" -> a.num_atts
      [] pos = "MNG" -> a.num_gks

PositionCount(a, pos) ==
    CASE pos = "GKP" -> a.num_gks
      [] pos = "DEF" -> a.num_defs
      [] pos = "MID" -> a.num_mids
      [] pos = "FWD" -> a.num_atts
      [] pos = "MNG" -> a.num_mngs

Objective(d) == LpSumLoc(d, Index(d), "metric")

\* as TotalValueConstraint, had line 66 multiplied max_value by 10 once more
\* (the docstring: "maximum squad value multiplied by 10")
TotalValueConstraint_Scaled(d, a) ==
    [name |-> <<"Total_value">>, coef |-> LpSumLoc(d, Index(d), "now_cost"),
     sense |-> "<=", rhs |-> a.max_value * 10]

\* as TotalValueConstraint, had line 66 said < max_value (costs are integers)
TotalValueConstraint_Strict(d, a) ==
    [name |-> <<"Total_value">>, coef |-> LpSumLoc(d, Index(d), "now_cost"),
     sense |-> "<=", rhs |-> a.max_value - 1]

\* as TotalValueConstraint, had line 66 used the default cap, not max_value
TotalValueConstraint_DefaultCap(d, a) ==
    [name |-> <<"Total_value">>, coef |-> LpSumLoc(d, Index(d), "now_cost"),
     sense |-> "<=", rhs |-> DefaultMaxValue]

TotalValueConstraint(d, a) ==
    [name |-> <<"Total_value">>, coef |-> LpSumLoc(d, Index(d), "now_cost"),
     sense |-> "<=", rhs |-> a.max_value]

\* as PositionConstraints, had line 72 said <= count
PositionConstraints_AtMost(d, a) ==
    [k \in 1..Len(Positions) |->
        [name |-> <<"Total", Positions[k]>>,
         coef |-> LpSumX(d, IndexWhere(d, "player_position", Positions[k])),
         sense |-> "<=", rhs |-> PositionCount(a, Positions[k])]]

\* as PositionConstraints, had the dict of line 69 no entry 'MNG'
PositionConstraints_NoMNG(d, a) ==
    [k \in 1..(Len(Positions) - 1) |->
        [name |-> <<"Total", Positions[k]>>,
         coef |-> LpSumX(d, IndexWhere(d, "player_position", Positions[k])),
         sense |-> "==", rhs |-> PositionCount(a, Positions[k])]]

\* as PositionConstraints, had line 72 been skipped when pos_ids is empty
PositionConstraints_SkipEmpty(d, a) ==
    LET all == [k \in 1..Len(Positions) |->
                  [name |-> <<"Total", Positions[k]>>,
                   coef |-> LpSumX(d, IndexWhere(d, "player_position", Positions[k])),
                   sense |-> "==", rhs |-> PositionCount(a, Positions[k])]]
        HasPlayers(c) == \E v \in DOMAIN c.coef : c.coef[v] # 0
    IN  SelectSeq(all, HasPlayers)

PositionConstraints(d, a) ==
    [k \in 1..Len(Positions) |->
        [name |-> <<"Total", Positions[k]>>,
         coef |-> LpSumX(d, IndexWhere(d, "player_position", Positions[k])),
         sense |-> "==", rhs |-> PositionCount(a, Positions[k])]]

\* as TeamConstraints, had line 77 said < 3
TeamConstraints_Strict(d) ==
    LET teams == Unique(d, "team_name")
    IN  [k \in 1..Len(teams) |->
           [name |-> <<"Team", teams[k]>>,
            coef |-> LpSumX(d, IndexWhere(d, "team_name", teams[k])),
            sense |-> "<=", rhs |-> TeamCap - 1]]

\* as TeamConstraints, had line 77 allowed one player more
TeamConstraints_OneMore(d) ==
    LET teams == Unique(d, "team_name")
    IN  [k \in 1..Len(teams) |->
           [name |-> <<"Team", teams[k]>>,
            coef |-> LpSumX(d, IndexWhere(d, "team_name", teams[k])),
            sense |-> "<=", rhs |-> TeamCap + 1]]

TeamConstraints(d) ==
    LET teams == Unique(d, "team_name")
    IN  [k \in 1..Len(teams) |->
           [name |-> <<"Team", teams[k]>>,
            coef |-> LpSumX(d, IndexWhere(d, "team_name", teams[k])),
            sense |-> "<=", rhs |-> TeamCap]]

AtMostOnceConstraints(d) ==
    LET ids == Index(d)
    IN  [k \in 1..Len(ids) |->
           [name |-> <<"Select", ids[k]>>,
            coef |-> LpSumX(d, <<ids[k]>>),
            sense |-> "<=", rhs |-> 1]]

\* prob after line 81: LpMaximize, the objective and the constraints
BuildProblem(d, a) ==
    [variables |-> Variables(d),
     objective |-> Objective(d),
     constraints |-> <<TotalValueConstraint(d, a)>> \o PositionConstraints(d, a)
                       \o TeamConstraints(d) \o AtMostOnceConstraints(d)]

-----------------------------------------------------------------------------
(* CBC on a 0/1 program: an assignment is the set of variables at 1 *)

Value(coef, S) == SumOver(S, coef)

Satisfies(S, c) ==
    IF c.sense = "<=" THEN Value(c.coef, S) <= c.rhs
    ELSE Value(c.coef, S) = c.rhs

Feasible(prob) ==
    {S \in SUBSET prob.variables :
        \A k \in 1..Len(prob.constraints) : Satisfies(S, prob.constraints[k])}

\* as Optima, had line 57 said LpMinimize
Optima_Minimize(prob) ==
    LET F == Feasible(prob)
    IN  {S \in F : \A T \in F : Value(prob.objective, T) >= Value(prob.objective, S)}

\* LpMaximize: the feasible assignments of greatest objective value
Optima(prob) ==
    LET F == Feasible(prob)
    IN  {S \in F : \A T \in F : Value(prob.objective, T) <= Value(prob.objective, S)}

\* prob.solve(PULP_CBC_CMD(msg=0)): the status and the variables at 1.  CBC
\* either decides the program or stops without deciding it ("Not Solved").
SolverOutcomes(prob) ==
    LET best == Optima(prob)
    IN  (IF best # {} THEN {[status |-> "Optimal", x |-> S] : S \in best}
         ELSE {[status |-> "Infeasible", x |-> {}]})
        \cup {[status |-> "Not Solved", x |-> {}]}

-----------------------------------------------------------------------------
(* select_fpl_squad *)

\* as KeptRows, had cols_to_keep (lines 35-43) listed the column round
KeptRows_WithRound(t) == DropDuplicates(t)

\* lines 45-50: the kept columns, without duplicate rows, indexed by id_player
KeptRows(t) == DropDuplicates([r \in 1..Len(t) |-> KeepCols(t[r])])

\* as LocalFrame, had line 45 reduced the caller's frame in place
\* (drop(columns=..., inplace=True), drop_duplicates(inplace=True))
LocalFrame_InPlace(t) == [fresh |-> FALSE, rows |-> KeptRows(t)]

\* the object the name df is bound to from line 45 on: df[cols_to_keep] and
\* drop_duplicates() each return a new frame, so it is not the caller's
LocalFrame(t) == [fresh |-> TRUE, rows |-> KeptRows(t)]

\* the caller's frame once the function has worked on its own df (set_index
\* with inplace=True at line 49, column assignments at lines 53-54): those
\* writes reach the caller's frame only when df is that very object
CallerFrame(t, frame, rows) == IF frame.fresh THEN t ELSE rows

\* lines 53-54 raise ValueError unless every cell of the two columns parses
CanCoerce(d) ==
    \A r \in 1..Len(d) : IsNumeric(d[r].now_cost) /\ IsNumeric(d[r].metric)

\* lines 53-54: now_cost and the metric as numbers
Coerce(d) ==
    [r \in 1..Len(d) |->
        [d[r] EXCEPT !.now_cost = ToNumeric(d[r].now_cost),
                     !.metric = ToNumeric(d[r].metric)]]

None == [kind |-> "None"]

\* as ValueError, had lines 53-54 caught the exception and returned None
ValueError_Swallowed == [kind |-> "None"]

\* the exception pd.to_numeric raises at line 53 or 54
ValueError == [kind |-> "ValueError"]
Squad(rows) == [kind |-> "squad", rows |-> rows]

\* line 95: [i for i in player_ids if x[i].varValue == 1]
SelectedIds(d, x) ==
    LET AtOne(i) == i \in x
    IN  SelectSeq(Index(d), AtOne)

\* as Returned, without the status check of line 87
Returned_Unchecked(d, o) ==
    [selected_ids |-> SelectedIds(d, o.x),
     value |-> Squad(LocRows(d, SelectedIds(d, o.x)))]

\* lines 86-98: None unless the status is 'Optimal', else the selected rows
Returned(d, o) ==
    IF o.status # "Optimal"
    THEN [selected_ids |-> <<>>, value |-> None]
    ELSE [selected_ids |-> SelectedIds(d, o.x),
          value |-> Squad(LocRows(d, SelectedIds(d, o.x)))]

\* no LpProblem yet (line 57 not reached)
NoProblem == [variables |-> {}, objective |-> <<>>, constraints |-> <<>>]

\* as Attempts, had a failed solve been followed by one under the default cap
Attempts_RetryRelaxed(d, a) ==
    <<BuildProblem(d, a),
      BuildProblem(d, [a EXCEPT !.max_value = DefaultMaxValue])>>

\* the programs the call hands to the solver, in order: line 84 is the only
\* prob.solve of the function and it is in no loop
Attempts(d, a) == <<BuildProblem(d, a)>>

\* the solves of a call: each program in turn until one is 'Optimal'
RECURSIVE Runs(_)
Runs(probs) ==
    LET first == SolverOutcomes(Head(probs))
        last == {o \in first : o.status = "Optimal" \/ Len(probs) = 1}
    IN  {[status |-> o.status, x |-> o.x, prob |-> Head(probs), solves |-> 1]
            : o \in last}
        \cup (IF first = last THEN {}
              ELSE {[r EXCEPT !.solves = @ + 1] : r \in Runs(Tail(probs))})

select_fpl_squad ==
    /\ pc = "idle"
    /\ pc' = "done"
    /\ UNCHANGED <<args, team_cap, calls, files, rest_vars>>
    /\ LET frame == LocalFrame(table)
           kept == frame.rows
       IN  IF ~CanCoerce(kept)
           THEN /\ table' = CallerFrame(table, frame, kept)
                /\ df' = kept
                /\ problem' = NoProblem
                /\ solves' = 0
                /\ status' = "Not Run"
                /\ selected_ids' = <<>>
                /\ result' = ValueError
           ELSE LET d == Coerce(kept)
                IN  /\ table' = CallerFrame(table, frame, d)
                    /\ df' = d
                    /\ \E o \in Runs(Attempts(d, args)) :
                          /\ problem' = o.prob
                          /\ solves' = o.solves
                          /\ status' = o.status
                          /\ selected_ids' = Returned(d, o).selected_ids
                          /\ result' = Returned(d, o).value

-----------------------------------------------------------------------------
(* The calls the model makes: tables and arguments from bounded sets.  The  *)
(* code uses id_player only as a label, so the players of a table are      *)
(* numbered in the order of their attributes.                              *)

Teams == <<"A", "B">>

IndexOf(s, v) == CHOOSE k \in 1..Len(s) : s[k] = v

PlayerTypes(positions, teams, costs, metrics) ==
    [player_position : positions, team_name : teams,
     now_cost : costs, metric : metrics]

TypeRank(t) ==
    ((IndexOf(Positions, t.player_position) * 10
        + IndexOf(Teams, t.team_name)) * 10 + t.now_cost) * 10 + t.metric + 1

\* the pools of at most n players of the given types, up to renumbering
Pools(n, types) ==
    UNION {{f \in [1..m -> types] :
               \A i \in 1..(m-1) : TypeRank(f[i]) <= TypeRank(f[i+1])}
           : m \in 0..n}

Row(i, t, round) ==
    [id_player |-> i, player_position |-> t.player_position,
     team_name |-> t.team_name, now_cost |-> Num(t.now_cost),
     metric |-> Num(t.metric), round |-> round]

\* one row per player
TableOf(pool) == [i \in 1..Len(pool) |-> Row(i, pool[i], 1)]

\* copies[i] rows of player i, one per round
GameweekTable(pool, copies) ==
    Flatten([i \in 1..Len(pool) |->
                [r \in 1..copies[i] |-> Row(i, pool[i], r)]])

Args(gks, defs, mids, atts, mngs, cap) ==
    [num_gks |-> gks, num_defs |-> defs, num_mids |-> mids,
     num_atts |-> atts, num_mngs |-> mngs, max_value |-> cap]

\* main() is not part of the run
MainIdle ==
    /\ revision = "v1r0"
    /\ csv = <<>>
    /\ email = <<>>
    /\ raised = "none"

\* no subsystem other than the optimizer is part of the run
FetchIdle ==
    /\ fpc = "start"
    /\ bootstrap = "none"
    /\ player_ids = <<>>
    /\ started = 0
    /\ fetched = <<>>
    /\ requested = <<>>
    /\ overtaken = FALSE
    /\ printed = {}
    /\ returned = [kind |-> "pending"]

FramesIdle ==
    /\ frame_call = [fn |-> "none"]
    /\ frame_out = [kind |-> "pending"]

ExpIdle ==
    /\ exp_call = [rev |-> "none", rows |-> <<>>]
    /\ exp_out = [kind |-> "pending"]

RestIdle == MainIdle /\ FetchIdle /\ FramesIdle /\ ExpIdle

OptimizerIdle ==
    /\ pc = "idle"
    /\ df = <<>>
    /\ problem = NoProblem
    /\ solves = 0
    /\ status = "Not Run"
    /\ selected_ids = <<>>
    /\ result = [kind |-> "pending"]
    /\ calls = <<>>
    /\ files = <<>>

NotCalled == OptimizerIdle /\ RestIdle

\* pools of one team, in which positions, costs and the budget cap interact
InitBudget ==
    /\ \E pool \in Pools(MaxPlayers,
                     PlayerTypes({"GKP", "DEF", "MNG"}, {"A"},
                                 1..MaxCost, 0..MaxMetric)) :
          table = TableOf(pool)
    /\ \E gks \in 0..MaxQuota, defs \in 0..MaxQuota, mngs \in 0..MaxMngs,
          cap \in 1..MaxBudget :
          args = Args(gks, defs, 0, 0, mngs, cap)
    /\ team_cap = TeamCap
    /\ NotCalled

\* pools of two teams under the default budget cap
InitTeams ==
    /\ \E pool \in Pools(MaxTeamPlayers,
                     PlayerTypes({"MID", "FWD"}, {"A", "B"},
                                 {1}, (0 - 1)..MaxMetric)) :
          table = TableOf(pool)
    /\ \E mids \in 0..MaxQuota, atts \in 0..MaxQuota :
          args = Args(0, 0, mids, atts, 0, DefaultMaxValue)
    /\ team_cap = TeamCap
    /\ NotCalled

\* tables with one row per player and gameweek, as engineer_features makes
InitGameweeks ==
    /\ \E pool \in Pools(MaxDupPlayers,
                     PlayerTypes({"GKP", "DEF"}, {"A"},
                                 1..MaxCost, 0..MaxMetric)) :
          \E copies \in [1..Len(pool) -> 1..MaxCopies] :
             table = GameweekTable(pool, copies)
    /\ \E gks \in 0..MaxQuota, defs \in 0..MaxQuota,
          cap \in 1..MaxBudget :
          args = Args(gks, defs, 0, 0, 0, cap)
    /\ team_cap = TeamCap
    /\ NotCalled

\* tables of goalkeepers in which cells may be strings
InitText ==
    /\ \E n \in 1..MaxTextPlayers :
          \E costs \in [1..n -> {Num(1), Str("2"), Str("n/a")}],
             metrics \in [1..n -> {Num(1), Str("0"), Str("-")}] :
             table = [i \in 1..n |->
                        [id_player |-> i, player_position |-> "GKP",
                         team_name |-> "A", now_cost |-> costs[i],
                         metric |-> metrics[i], round |-> 1]]
    /\ \E gks \in 0..MaxQuota, cap \in 1..MaxBudget :
          args = Args(gks, 0, 0, 0, 0, cap)
    /\ team_cap = TeamCap
    /\ NotCalled

\* pools of midfielders and forwards of one team that differ in cost and metric
InitForwards ==
    /\ \E pool \in Pools(MaxPlayers,
                     PlayerTypes({"MID", "FWD"}, {"A"},
                                 1..MaxCost, 0..MaxMetric)) :
          table = TableOf(pool)
    /\ \E mids \in 0..MaxQuota, atts \in 0..MaxQuota, cap \in 1..MaxBudget :
          args = Args(0, 0, mids, atts, 0, cap)
    /\ team_cap = TeamCap
    /\ NotCalled

\* callers that want a team cap of their own: lines 10-17 give them no
\* parameter for it, so the call is the same whatever cap they want
InitTeamCap ==
    /\ \E pool \in Pools(MaxTeamPlayers,
                     PlayerTypes({"MID", "FWD"}, {"A", "B"},
                                 {1}, {MaxMetric})) :
          table = TableOf(pool)
    /\ \E mids \in 0..MaxQuota, atts \in 0..MaxQuota :
          args = Args(0, 0, mids, atts, 0, DefaultMaxValue)
    /\ team_cap \in 1..MaxTeamCap
    /\ NotCalled

Init ==
    \/ InitBudget
    \/ InitTeams
    \/ InitGameweeks
    \/ InitText
    \/ InitForwards
    \/ InitTeamCap

Next == select_fpl_squad

Spec == Init /\ [][Next]_vars

-----------------------------------------------------------------------------
(* Calls of select_fpl_squad that run side by side (threads of one process). *)
(* Every name of the function is a local, so a call owns its df, prob and x; *)
(* what calls have in common is the file system through which               *)
(* PULP_CBC_CMD talks to CBC: prob.solve writes the program to a temporary  *)
(* .mps file, runs cbc on it, reads the .sol file cbc wrote and deletes     *)
(* both.                                                                    *)

NumCalls == 2        \* calls side by side
MaxCallPlayers == 2  \* players of the pool of such a call

\* as TmpName, had the files been named after the problem, which every call
\* names "FPL_Squad_Selection" at line 57 (PuLP does so with keepFiles)
TmpName_ProblemName(c) == <<"FPL_Squad_Selection">>

\* PULP_CBC_CMD names its temporary files with a fresh uuid4 per solve
TmpName(c) == <<"uuid", c>>

Call(t, a) ==
    [table |-> t, args |-> a, pc |-> "idle", df |-> <<>>,
     status |-> "Not Run", result |-> [kind |-> "pending"]]

\* lines 45-81 and the first part of prob.solve: the program is built from
\* the call's own table and arguments and written to the call's .mps file
call_build(c) ==
    /\ calls[c].pc = "idle"
    /\ LET kept == LocalFrame(calls[c].table).rows
       IN  IF ~CanCoerce(kept)
           THEN /\ calls' = [calls EXCEPT ![c].pc = "done", ![c].df = kept,
                                          ![c].result = ValueError]
                /\ UNCHANGED files
           ELSE LET d == Coerce(kept)
                IN  /\ calls' = [calls EXCEPT ![c].pc = "written", ![c].df = d]
                    /\ files' = (TmpName(c) :>
                                    [mps |-> BuildProblem(d, calls[c].args),
                                     sol |-> <<>>]) @@ files
    /\ UNCHANGED <<table, args, team_cap, pc, df, problem, solves, status,
                   selected_ids, result, rest_vars>>

\* the middle of prob.solve: cbc reads the .mps file and writes the .sol file
call_solve(c) ==
    /\ calls[c].pc = "written"
    /\ TmpName(c) \in DOMAIN files
    /\ \E o \in SolverOutcomes(files[TmpName(c)].mps) :
          files' = [files EXCEPT ![TmpName(c)].sol = <<o>>]
    /\ calls' = [calls EXCEPT ![c].pc = "ran"]
    /\ UNCHANGED <<table, args, team_cap, pc, df, problem, solves, status,
                   selected_ids, result, rest_vars>>

\* the end of prob.solve and lines 86-98: the .sol file is read into status
\* and varValue, the files are deleted, the squad or None is returned
call_return(c) ==
    /\ calls[c].pc = "ran"
    /\ TmpName(c) \in DOMAIN files
    /\ files[TmpName(c)].sol # <<>>
    /\ LET o == files[TmpName(c)].sol[1]
       IN  calls' = [calls EXCEPT ![c].pc = "done", ![c].status = o.status,
                                  ![c].result = Returned(calls[c].df, o).value]
    /\ files' = [n \in DOMAIN files \ {TmpName(c)} |-> files[n]]
    /\ UNCHANGED <<table, args, team_cap, pc, df, problem, solves, status,
                   selected_ids, result, rest_vars>>

\* the tables of the calls: goalkeepers of one team, or one row whose cost
\* does not parse
CallTables ==
    {TableOf(pool) : pool \in Pools(MaxCallPlayers,
                                    PlayerTypes({"GKP"}, {"A"},
                                                1..MaxCost, 0..MaxMetric))}
    \cup {<<[id_player |-> 1, player_position |-> "GKP", team_name |-> "A",
             now_cost |-> Str("n/a"), metric |-> Num(MaxMetric), round |-> 1]>>}

InitCalls ==
    /\ calls \in [1..NumCalls ->
                    {Call(t, Args(gks, 0, 0, 0, 0, cap)) :
                        t \in CallTables, gks \in 1..MaxQuota,
                        cap \in 1..MaxCost}]
    /\ files = <<>>
    /\ table = <<>>
    /\ args = Args(0, 0, 0, 0, 0, DefaultMaxValue)
    /\ team_cap = TeamCap
    /\ pc = "done"
    /\ df = <<>>
    /\ problem = NoProblem
    /\ solves = 0
    /\ status = "Not Run"
    /\ selected_ids = <<>>
    /\ result = [kind |-> "pending"]
    /\ RestIdle

NextCalls ==
    \E c \in 1..NumCalls : call_build(c) \/ call_solve(c) \/ call_return(c)

SpecCalls == InitCalls /\ [][NextCalls]_vars

-----------------------------------------------------------------------------
(* The earlier revision of the optimizer, 'fpl bot draft 2'/                 *)
(* select_fpl_squad.py (the function inside fpl_bot_v2r0.py has the same    *)
(* position table).  It keeps every column and every row of the table, has *)
(* no parameter num_mngs and no entry 'MNG' in its position table.  Its     *)
(* columns singular_name_short and team are the rows' player_position and   *)
(* team_name.                                                               *)

\* positions = {'GKP': num_gks, 'DEF': num_defs, 'MID': num_mids, 'FWD': num_atts}
PositionsDraft2 == <<"GKP", "DEF", "MID", "FWD">>

PositionConstraintsDraft2(d, a) ==
    [k \in 1..Len(PositionsDraft2) |->
        [name |-> <<"Total", PositionsDraft2[k]>>,
         coef |-> LpSumX(d, IndexWhere(d, "player_position", PositionsDraft2[k])),
         sense |-> "==", rhs |-> PositionCount(a, PositionsDraft2[k])]]

BuildProblemDraft2(d, a) ==
    [variables |-> Variables(d),
     objective |-> Objective(d),
     constraints |-> <<TotalValueConstraint(d, a)>>
                       \o PositionConstraintsDraft2(d, a)
                       \o TeamConstraints(d) \o AtMostOnceConstraints(d)]

\* reset_index(drop=True) of the id_player-indexed frame with all its columns
DropIndexDraft2(row) ==
    [player_position |-> row.player_position, team_name |-> row.team_name,
     now_cost |-> row.now_cost, metric |-> row.metric, round |-> row.round]

LocRowsDraft2(d, ids) ==
    LET rows == Flatten([k \in 1..Len(ids) |-> RowsAt(d, ids[k])])
    IN  [r \in 1..Len(rows) |-> DropIndexDraft2(rows[r])]

ReturnedDraft2(d, o) ==
    IF o.status # "Optimal"
    THEN [selected_ids |-> <<>>, value |-> None]
    ELSE [selected_ids |-> SelectedIds(d, o.x),
          value |-> Squad(LocRowsDraft2(d, SelectedIds(d, o.x)))]

select_fpl_squad_draft2 ==
    /\ pc = "idle"
    /\ pc' = "done"
    /\ UNCHANGED <<table, args, team_cap, calls, files, rest_vars>>
    /\ IF ~CanCoerce(table)
       THEN /\ df' = table
            /\ problem' = NoProblem
            /\ solves' = 0
            /\ status' = "Not Run"
            /\ selected_ids' = <<>>
            /\ result' = ValueError
       ELSE LET d == Coerce(table)
            IN  /\ df' = d
                /\ \E o \in Runs(<<BuildProblemDraft2(d, args)>>) :
                      /\ problem' = o.prob
                      /\ solves' = o.solves
                      /\ status' = o.status
                      /\ selected_ids' = ReturnedDraft2(d, o).selected_ids
                      /\ result' = ReturnedDraft2(d, o).value

\* pools of the 2024/25 game, in which the API lists managers ('MNG') among
\* the players; a goalkeeper's or a manager's cost may be a string
InitDraft2 ==
    /\ \E pool \in Pools(MaxPlayers,
                     PlayerTypes({"GKP", "MNG"}, {"A"},
                                 1..MaxCost, 0..MaxMetric)) :
          \E text \in BOOLEAN :
             table = [i \in 1..Len(pool) |->
                        IF text /\ i = 1
                        THEN [Row(i, pool[i], 1) EXCEPT !.now_cost = Str("n/a")]
                        ELSE Row(i, pool[i], 1)]
    /\ \E gks \in 0..MaxQuota, cap \in 1..MaxBudget :
          args = Args(gks, 0, 0, 0, 0, cap)
    /\ team_cap = TeamCap
    /\ NotCalled

NextDraft2 == select_fpl_squad_draft2

SpecDraft2 == InitDraft2 /\ [][NextDraft2]_vars

-----------------------------------------------------------------------------
(* main() of the bot, from the call of select_fpl_squad on: the table is the *)
(* frame engineer_features (v1r0) or process_fpl_data (v2r0) made.  v1r0 is  *)
(* src/src/fpl_bot_v1r0.py, whose call of email_squad is commented out; v2r0 *)
(* is 'fpl bot draft 2'/fpl_bot_v2r0.py, which selects with its own          *)
(* four-position optimizer and e-mails the squad.  main passes no quotas:   *)
(* the quotas of the state stand for the defaults of the signature.         *)

MaxMainPlayers == 2  \* players of the pool main selects from

\* pd.Categorical(squad['player_position'], ['GKP','DEF','MID','FWD']): a
\* position outside the categories becomes NaN
Categories == <<"GKP", "DEF", "MID", "FWD">>

Categorical(pos) == IF pos \in Range(Categories) THEN pos ELSE "NaN"

\* the place of a category in sort_values: NaN last
CategoryRank(cat) ==
    IF cat \in Range(Categories) THEN IndexOf(Categories, cat)
    ELSE Len(Categories) + 1

\* sort_values(by=['player_position', metric]): stable, ascending
SortsBefore(a, b) ==
    \/ CategoryRank(a.player_position) < CategoryRank(b.player_position)
    \/ /\ CategoryRank(a.player_position) = CategoryRank(b.player_position)
       /\ a.metric < b.metric

RECURSIVE InsertSorted(_, _)
InsertSorted(sorted, row) ==
    IF sorted = <<>> THEN <<row>>
    ELSE IF SortsBefore(row, Head(sorted)) THEN <<row>> \o sorted
    ELSE <<Head(sorted)>> \o InsertSorted(Tail(sorted), row)

RECURSIVE SortValues(_)
SortValues(rows) ==
    IF rows = <<>> THEN <<>>
    ELSE InsertSorted(SortValues(SubSeq(rows, 1, Len(rows) - 1)),
                      rows[Len(rows)])

\* the squad frame after the column assignment of save_selected_squad,
\* which writes to the frame main holds
WithCategories(rows) ==
    [k \in 1..Len(rows) |->
        [rows[k] EXCEPT !.player_position = Categorical(@)]]

\* as SaveOutcomes, had save_selected_squad turned None into an empty frame
SaveOutcomes_NoneAsEmpty(res) ==
    IF res.kind = "None"
    THEN {[raised |-> "none", csv |-> <<<<>>>>]}
    ELSE {[raised |-> "none", csv |-> <<SortValues(WithCategories(res.rows))>>],
          [raised |-> "OSError", csv |-> <<>>]}

\* save_selected_squad(squad): on None the column assignment raises
\* TypeError before anything is written; on a frame the sorted squad is
\* written by to_csv, which may fail on the path
SaveOutcomes(res) ==
    IF res.kind = "None"
    THEN {[raised |-> "TypeError", csv |-> <<>>]}
    ELSE {[raised |-> "none", csv |-> <<SortValues(WithCategories(res.rows))>>],
          [raised |-> "OSError", csv |-> <<>>]}

\* the text of email_squad: the players position by position
EmailBody(rows) ==
    Flatten([p \in 1..Len(Categories) |->
                LET OfPosition(row) == row.player_position = Categories[p]
                IN  SelectSeq(rows, OfPosition)])

\* squad = select_fpl_squad(...) in main
main_select ==
    /\ raised = "none"
    /\ \/ revision = "v1r0" /\ select_fpl_squad
       \/ revision = "v2r0" /\ select_fpl_squad_draft2

\* an exception of select_fpl_squad ends main
main_propagate ==
    /\ pc = "done"
    /\ result.kind = "ValueError"
    /\ raised = "none"
    /\ pc' = "crashed"
    /\ raised' = "ValueError"
    /\ UNCHANGED <<table, args, team_cap, df, problem, solves, status,
                   selected_ids, result, calls, files, revision, csv, email,
                   fetch_vars, frames_vars, exp_vars>>

\* save_selected_squad(squad, metric), called whatever was returned
save_selected_squad ==
    /\ pc = "done"
    /\ result.kind \in {"squad", "None"}
    /\ \E o \in SaveOutcomes(result) :
          /\ raised' = o.raised
          /\ csv' = o.csv
          /\ pc' = IF o.raised = "none" THEN "saved" ELSE "crashed"
          /\ result' = IF result.kind = "squad"
                       THEN Squad(WithCategories(result.rows))
                       ELSE result
    /\ UNCHANGED <<table, args, team_cap, df, problem, solves, status,
                   selected_ids, calls, files, revision, email, fetch_vars,
                   frames_vars, exp_vars>>

\* email_squad(squad), the next statement of main in v2r0
email_squad ==
    /\ pc = "saved"
    /\ revision = "v2r0"
    /\ \/ /\ email' = <<EmailBody(result.rows)>>
          /\ pc' = "emailed"
          /\ UNCHANGED raised
       \/ /\ raised' = "SMTPException"
          /\ pc' = "crashed"
          /\ UNCHANGED email
    /\ UNCHANGED <<table, args, team_cap, df, problem, solves, status,
                   selected_ids, result, calls, files, revision, csv,
                   fetch_vars, frames_vars, exp_vars>>

\* the tables of main: goalkeepers and managers of one team, or one row
\* whose cost does not parse
MainTables ==
    {TableOf(pool) : pool \in Pools(MaxMainPlayers,
                                    PlayerTypes({"GKP", "MNG"}, {"A"},
                                                1..MaxCost, 0..MaxMetric))}
    \cup {<<[id_player |-> 1, player_position |-> "GKP", team_name |-> "A",
             now_cost |-> Str("n/a"), metric |-> Num(MaxMetric), round |-> 1]>>}

InitMain ==
    /\ table \in MainTables
    /\ \E gks \in 0..MaxQuota, cap \in 1..MaxBudget :
          args = Args(gks, 0, 0, 0, 0, cap)
    /\ team_cap = TeamCap
    /\ OptimizerIdle
    /\ revision \in {"v1r0", "v2r0"}
    /\ csv = <<>>
    /\ email = <<>>
    /\ raised = "none"
    /\ FetchIdle
    /\ FramesIdle
    /\ ExpIdle

NextMain ==
    \/ main_select
    \/ main_propagate
    \/ save_selected_squad
    \/ email_squad

SpecMain == InitMain /\ [][NextMain]_vars

-----------------------------------------------------------------------------
(* get_fpl_data of src/src/data_sourcing.py: the bootstrap-static request,  *)
(* then one element-summary request per player on the executor's workers.   *)

MaxIds == 6      \* players of the bootstrap-static response
MaxHistory == 2  \* gameweeks a player's history holds at most

\* ThreadPoolExecutor(max_workers=5)
MaxWorkers == 5

\* the subclasses of requests.exceptions.RequestException a request ends
\* with: requests.get(timeout=10) raising, or raise_for_status
RequestExceptions == {"Timeout", "ConnectionError", "HTTPError"}

\* how an element-summary request can end: answered, failed, or answered
\* with a body that has no 'history' key
HistoryEndings == {"ok", "KeyError"} \cup RequestExceptions

\* the optimizer's variables, which this part of the program leaves alone
optimizer_vars == <<table, args, team_cap, pc, df, problem, solves, status,
                    selected_ids, result, calls, files>>

OptimizerUnused ==
    /\ table = <<>>
    /\ args = Args(0, 0, 0, 0, 0, 0)
    /\ team_cap = TeamCap
    /\ OptimizerIdle

\* response.json()['elements'] of a response with n players: the ids in
\* the order of the response, which is not the order of the ids
Elements(n) == [k \in 1..n |-> n + 1 - k]

\* response.json()['history'] of the player: one row per gameweek played
History(player_id) ==
    [r \in 1..(player_id % (MaxHistory + 1)) |->
        [element |-> player_id, round |-> r]]

\* as Caught, with an except clause for requests.exceptions.Timeout only
Caught_TimeoutOnly(exc) == exc = "Timeout"

\* except requests.exceptions.RequestException
Caught(exc) == exc \in RequestExceptions

\* what get_gameweek_history(player_id) hands back when its request ends
\* with 'ending'
get_gameweek_history(player_id, ending) ==
    IF ending = "ok"
    THEN [state |-> "done", ending |-> ending, kind |-> "frame",
          rows |-> History(player_id)]
    ELSE IF Caught(ending)
    THEN [state |-> "done", ending |-> ending, kind |-> "frame",
          rows |-> <<>>]
    ELSE [state |-> "done", ending |-> ending, kind |-> "raised",
          rows |-> <<>>]

\* what the except clause of get_gameweek_history prints
Printed(player_id, ending) ==
    IF ending # "ok" /\ Caught(ending) THEN {<<player_id, ending>>} ELSE {}

Running == {k \in 1..Len(fetched) : fetched[k].state = "running"}

\* as ResultsOrder, had the results been gathered player by player in the
\* order of the ids
ResultsOrder_ById(ids) ==
    [k \in 1..Len(ids) |->
        CHOOSE j \in 1..Len(ids) :
            Cardinality({i \in 1..Len(ids) : ids[i] < ids[j]}) = k - 1]

\* executor.map yields the results in the order of its iterable
ResultsOrder(ids) == [k \in 1..Len(ids) |-> k]

\* as ResponseJson, had response_json been bound before the try statement
ResponseJson_Preset(ending, n) ==
    IF ending = "ok" THEN [bound |-> TRUE, elements |-> Elements(n)]
    ELSE [bound |-> TRUE, elements |-> Elements(1)]

\* the local response_json after the try statement of get_fpl_data: the
\* except clause leaves it unbound
ResponseJson(ending, n) ==
    IF ending = "ok" THEN [bound |-> TRUE, elements |-> Elements(n)]
    ELSE [bound |-> FALSE, elements |-> <<>>]

\* get_fpl_data up to the submission of the fetches: reading
\* response_json unbound raises UnboundLocalError, df_players['id'] of a
\* response without players raises KeyError
get_fpl_data ==
    /\ fpc = "start"
    /\ \E ending \in {"ok"} \cup RequestExceptions, n \in 0..MaxIds :
          LET response_json == ResponseJson(ending, n)
          IN  /\ ending # "ok" => n = 0
              /\ bootstrap' = ending
              /\ printed' = IF ending = "ok" THEN printed
                            ELSE printed \cup {<<"FPL data", ending>>}
              /\ IF ~response_json.bound
                 THEN /\ fpc' = "raised"
                      /\ returned' = [kind |-> "UnboundLocalError"]
                      /\ UNCHANGED <<player_ids, fetched>>
                 ELSE IF response_json.elements = <<>>
                 THEN /\ fpc' = "raised"
                      /\ returned' = [kind |-> "KeyError"]
                      /\ UNCHANGED <<player_ids, fetched>>
                 ELSE /\ fpc' = "mapping"
                      /\ player_ids' = response_json.elements
                      /\ fetched' = [k \in 1..Len(response_json.elements) |->
                                        [state |-> "queued"]]
                      /\ UNCHANGED returned
    /\ UNCHANGED <<started, requested, overtaken, optimizer_vars, main_vars,
                   frames_vars, exp_vars>>

\* a free worker takes the next id of the queue and sends its request
worker_start ==
    /\ fpc = "mapping"
    /\ started < Len(player_ids)
    /\ Cardinality(Running) < MaxWorkers
    /\ started' = started + 1
    /\ fetched' = [fetched EXCEPT ![started + 1] = [state |-> "running"]]
    /\ requested' = Append(requested, player_ids[started + 1])
    /\ UNCHANGED <<fpc, bootstrap, player_ids, overtaken, printed, returned,
                   optimizer_vars, main_vars, frames_vars, exp_vars>>

\* the request of a running fetch ends and get_gameweek_history returns
worker_finish ==
    /\ fpc = "mapping"
    /\ \E k \in Running, ending \in HistoryEndings :
          /\ fetched' = [fetched EXCEPT
                            ![k] = get_gameweek_history(player_ids[k], ending)]
          /\ printed' = printed \cup Printed(player_ids[k], ending)
          /\ overtaken' = (overtaken \/ \E j \in Running : j < k)
    /\ UNCHANGED <<fpc, bootstrap, player_ids, started, requested, returned,
                   optimizer_vars, main_vars, frames_vars, exp_vars>>

\* the with block is left when every fetch is over; list(executor.map(...))
\* re-raises the first exception of a fetch, else pd.concat joins the
\* results and get_fpl_data returns its four tables
get_all_gameweek_histories ==
    /\ fpc = "mapping"
    /\ \A k \in 1..Len(fetched) : fetched[k].state = "done"
    /\ LET order == ResultsOrder(player_ids)
           results == [k \in 1..Len(order) |-> fetched[order[k]]]
       IN  IF \E k \in 1..Len(results) : results[k].kind = "raised"
           THEN /\ fpc' = "raised"
                /\ returned' = [kind |-> "KeyError"]
           ELSE /\ fpc' = "returned"
                /\ returned' =
                      [kind |-> "tables",
                       df_players |-> player_ids,
                       df_points |-> Flatten([k \in 1..Len(results) |->
                                                 results[k].rows])]
    /\ UNCHANGED <<bootstrap, player_ids, started, fetched, requested,
                   overtaken, printed, optimizer_vars, main_vars,
                   frames_vars, exp_vars>>

InitFetch ==
    OptimizerUnused /\ MainIdle /\ FetchIdle /\ FramesIdle /\ ExpIdle

NextFetch ==
    \/ get_fpl_data
    \/ worker_start
    \/ worker_finish
    \/ get_all_gameweek_histories

SpecFetch == InitFetch /\ [][NextFetch]_vars

-----------------------------------------------------------------------------
(* The table functions: calc_points_per_game of feature_engineering.py and  *)
(* filter_dataframe and the filter step of transform_data of revisions     *)
(* v1r2 and v1r3 of the first draft.  A cell of a numeric column is a      *)
(* number or NaN.                                                          *)

MaxElements == 2    \* players of a points table
MaxRound == 3       \* rounds of a points table
MaxPoints == 2      \* total_points of a row
MaxPointsRows == 3  \* rows of a points table
MaxGws == 3         \* num_gws and rounds_to_sub
MaxFilterRows == 3  \* rows of a table given to filter_dataframe
MaxValue == 2       \* values of its cells and of its filters

NaN == [nan |-> TRUE, v |-> 0]

Val(n) == [nan |-> FALSE, v |-> n]

\* as GreaterEqual, had a missing value passed the comparison
GreaterEqual_NaNPasses(x, y) == x.nan \/ (~y.nan /\ x.v >= y.v)

\* x >= y and x > y of pandas: False when either side is NaN
GreaterEqual(x, y) == ~x.nan /\ ~y.nan /\ x.v >= y.v

Greater(x, y) == ~x.nan /\ ~y.nan /\ x.v > y.v

\* x + n of pandas: NaN stays NaN
Plus(x, n) == IF x.nan THEN NaN ELSE Val(x.v + n)

\* df['round'].max(): NaN for a table without rows
RoundMax(rows) ==
    IF rows = <<>> THEN NaN
    ELSE Val(CHOOSE r \in {rows[k].round.v : k \in 1..Len(rows)} :
                 \A k \in 1..Len(rows) : rows[k].round.v <= r)

\* df[mask] for the rows the predicate keeps
RECURSIVE FilterRows(_, _, _)
FilterRows(rows, col, bound) ==
    IF rows = <<>> THEN <<>>
    ELSE (IF GreaterEqual(Head(rows)[col], bound) THEN <<Head(rows)>> ELSE <<>>)
         \o FilterRows(Tail(rows), col, bound)

\* the default of the parameter filters: {} in v1r2, None in v1r3
DefaultFilters(rev) ==
    IF rev = "v1r2" THEN [none |-> FALSE, dict |-> <<>>]
    ELSE [none |-> TRUE, dict |-> <<>>]

\* for col in filters.keys(): df = df[df[col] >= filters[col]]
RECURSIVE FilterLoop(_, _)
FilterLoop(rows, dict) ==
    IF dict = <<>> THEN rows
    ELSE FilterLoop(FilterRows(rows, Head(dict)[1], Head(dict)[2]), Tail(dict))

\* filter_dataframe(df, filters): v1r3 returns df at once when filters is
\* None or empty, v1r2 has the loop only
FilterDataframe(rev, rows, filters) ==
    IF rev = "v1r3" /\ (filters.none \/ filters.dict = <<>>) THEN rows
    ELSE FilterLoop(rows, filters.dict)

\* min_round of transform_data
MinRound(rev, rows, rounds_to_sub) ==
    IF rev = "v1r2" THEN Plus(RoundMax(rows), 0 - rounds_to_sub)
    ELSE Plus(RoundMax(rows), 0 - rounds_to_sub + 1)

\* as InWindow, with >= for >
InWindow_Inclusive(round, max_round, num_gws) ==
    GreaterEqual(round, Plus(max_round, 0 - num_gws))

\* df['round'] > df['round'].max() - num_gws
InWindow(round, max_round, num_gws) ==
    Greater(round, Plus(max_round, 0 - num_gws))

\* groupby(by='element')['total_points'].mean() for one element: the sum
\* of the values over their number
GroupMean(rows, element) ==
    LET OfElement(row) == row.element = element
        group == SelectSeq(rows, OfElement)
    IN  [num |-> SumSeq([k \in 1..Len(group) |-> group[k].total_points]),
         den |-> Len(group)]

\* calc_points_per_game(df, num_gws): the rows of the window, each with the
\* mean of its player (inner merge on element, left order kept)
CalcPointsPerGame(rows, num_gws) ==
    LET max_round == RoundMax(rows)
        Recent(row) == InWindow(row.round, max_round, num_gws)
        kept == SelectSeq(rows, Recent)
    IN  [k \in 1..Len(kept) |->
            [element |-> kept[k].element,
             round |-> kept[k].round,
             total_points |-> kept[k].total_points,
             mean_ppg |-> GroupMean(kept, kept[k].element)]]

calc_points_per_game ==
    /\ frame_call.fn = "calc_points_per_game"
    /\ frame_out.kind = "pending"
    /\ frame_out' = [kind |-> "frame",
                     rows |-> CalcPointsPerGame(frame_call.df,
                                                frame_call.num_gws)]
    /\ UNCHANGED <<frame_call, optimizer_vars, main_vars, fetch_vars,
                   exp_vars>>

\* Step 1 of transform_data on df_points; the later steps see only the
\* rows it keeps
transform_data ==
    /\ frame_call.fn = "transform_data"
    /\ frame_out.kind = "pending"
    /\ LET min_round == MinRound(frame_call.rev, frame_call.df,
                                 frame_call.rounds_to_sub)
           points_filters == [none |-> FALSE,
                              dict |-> <<<<"round", min_round>>>>]
       IN  frame_out' = [kind |-> "frame",
                         rows |-> FilterDataframe(frame_call.rev,
                                                  frame_call.df,
                                                  points_filters)]
    /\ UNCHANGED <<frame_call, optimizer_vars, main_vars, fetch_vars,
                   exp_vars>>

filter_dataframe ==
    /\ frame_call.fn = "filter_dataframe"
    /\ frame_out.kind = "pending"
    /\ LET filters == IF frame_call.given THEN frame_call.filters
                      ELSE DefaultFilters(frame_call.rev)
       IN  frame_out' = [kind |-> "frame",
                         rows |-> FilterDataframe(frame_call.rev,
                                                  frame_call.df, filters)]
    /\ UNCHANGED <<frame_call, optimizer_vars, main_vars, fetch_vars,
                   exp_vars>>

\* every table of at most n rows of the given kinds
Tables(n, kinds) == UNION {[1..m -> kinds] : m \in 0..n}

PointsRows ==
    [element : 1..MaxElements, round : {Val(r) : r \in 1..MaxRound},
     total_points : 0..MaxPoints]

Cells == {NaN} \cup {Val(n) : n \in 1..MaxValue}

\* the dictionaries over the columns a and b, in each order of their keys
FilterDicts ==
    {<<>>}
    \cup {<<<<c, Val(n)>>>> : c \in {"a", "b"}, n \in 1..MaxValue}
    \cup {<<<<c[1], Val(n)>>, <<c[2], Val(m)>>>> :
             c \in {<<"a", "b">>, <<"b", "a">>}, n \in 1..MaxValue,
             m \in 1..MaxValue}

FrameCalls ==
    [fn : {"calc_points_per_game"}, df : Tables(MaxPointsRows, PointsRows),
     num_gws : 1..MaxGws]
    \cup [fn : {"transform_data"}, rev : {"v1r2", "v1r3"},
          df : Tables(MaxPointsRows, PointsRows), rounds_to_sub : 1..MaxGws]
    \cup [fn : {"filter_dataframe"}, rev : {"v1r2", "v1r3"},
          df : Tables(MaxFilterRows, [a : Cells, b : Cells]),
          given : {TRUE},
          filters : [none : {FALSE}, dict : FilterDicts]]
    \cup [fn : {"filter_dataframe"}, rev : {"v1r2", "v1r3"},
          df : Tables(MaxFilterRows, [a : Cells, b : Cells]),
          given : {FALSE},
          filters : {[none |-> TRUE, dict |-> <<>>]}]

InitFrames ==
    /\ OptimizerUnused
    /\ MainIdle
    /\ FetchIdle
    /\ frame_call \in FrameCalls
    /\ frame_out = [kind |-> "pending"]
    /\ ExpIdle

NextFrames ==
    \/ calc_points_per_game
    \/ transform_data
    \/ filter_dataframe

SpecFrames == InitFrames /\ [][NextFrames]_vars

-----------------------------------------------------------------------------
(* The expected-points formula of the first draft: calculate_exp_points of *)
(* v1r1 and _calculate_exp_points of v1r2 and v1r3, applied row by row.    *)
(* The columns are whole numbers here, mean_strength is counted in halves, *)
(* minutes in half matches, and expected_points is kept as a whole number  *)
(* of 1/80000 points.                                                      *)

MaxExpected == 2  \* expected_goals, expected_assists, expected_goals_conceded
MaxTeamXgc == 2   \* team_xgc_per_game

\* points_by_pos, the weight of goals conceded doubled to a whole number
points_by_pos ==
    ("GKP" :> [goal |-> 10, ass |-> 3, cs |-> 4, gc2 |-> -1])
    @@ ("DEF" :> [goal |-> 6, ass |-> 3, cs |-> 4, gc2 |-> -1])
    @@ ("MID" :> [goal |-> 5, ass |-> 3, cs |-> 1, gc2 |-> 0])
    @@ ("FWD" :> [goal |-> 4, ass |-> 3, cs |-> 0, gc2 |-> 0])

\* 1000 * math.exp(-x), to the nearest whole number
ExpNeg(x) == CASE x = 0 -> 1000 [] x = 1 -> 368 [] OTHER -> 135

\* 20 * fixture_multiplier for a mean_strength of halves / 2: in steps in
\* v1r1 and v1r2, 1 + (3 - mean_strength) * 0.1 in v1r3
FixtureMultiplier(rev, halves) ==
    IF rev = "v1r3" THEN 20 + (6 - halves)
    ELSE IF halves >= 7 THEN 18
    ELSE IF halves <= 5 THEN 22
    ELSE 20

\* the column the goals-conceded term is computed from
GcColumn == "expected_assists"

\* expected_points of the row, times 20 * 2 * 2000
ExpectedPoints(rev, row) ==
    LET weights == points_by_pos[row.player_position]
        minutes_multiplier == row.minutes \div 45
        expected_goal_points == 2000 * row.expected_goals * weights.goal
        expected_ass_points == 2000 * row.expected_assists * weights.ass
        expected_cs_points == 2 * ExpNeg(row.team_xgc_per_game) * weights.cs
        expected_gc_points_lost == 1000 * row[GcColumn] * weights.gc2
        fixture_multiplier == FixtureMultiplier(rev, row.mean_strength)
    IN  fixture_multiplier * minutes_multiplier
        * (expected_goal_points + expected_ass_points + expected_cs_points
           + expected_gc_points_lost)

\* df_points.progress_apply(_calculate_exp_points, axis=1)
calculate_exp_points ==
    /\ exp_call.rev # "none"
    /\ exp_out.kind = "pending"
    /\ exp_out' = [kind |-> "column",
                   expected_points |->
                       [k \in 1..Len(exp_call.rows) |->
                           ExpectedPoints(exp_call.rev, exp_call.rows[k])]]
    /\ UNCHANGED <<exp_call, optimizer_vars, main_vars, fetch_vars,
                   frames_vars>>

ExpRows ==
    [player_position : {"GKP", "DEF", "MID", "FWD"},
     minutes : {0, 45, 90},
     expected_goals : 0..1,
     expected_assists : 0..MaxExpected,
     expected_goals_conceded : 0..MaxExpected,
     team_xgc_per_game : 0..MaxTeamXgc,
     mean_strength : {5, 6, 7}]

\* a table of two rows that differ in one column at most
InitExpPoints ==
    /\ OptimizerUnused
    /\ MainIdle
    /\ FetchIdle
    /\ FramesIdle
    /\ \E rev \in {"v1r1", "v1r2", "v1r3"}, row \in ExpRows,
          col \in {"expected_assists", "expected_goals_conceded"},
          v \in 0..MaxExpected :
          exp_call = [rev |-> rev,
                      rows |-> <<row, [row EXCEPT ![col] = v]>>]
    /\ exp_out = [kind |-> "pending"]

NextExpPoints == calculate_exp_points

SpecExpPoints == InitExpPoints /\ [][NextExpPoints]_vars

-----------------------------------------------------------------------------
(* What the claims speak of, read off the caller's table and the arguments *)

\* the de-duplicated pool: the distinct rows of the kept columns
PoolRows == {KeepCols(table[r]) : r \in 1..Len(table)}

TableNumeric ==
    \A row \in PoolRows : IsNumeric(row.now_cost) /\ IsNumeric(row.metric)

RECURSIVE Total(_, _)
Total(S, col) ==
    IF S = {} THEN 0
    ELSE LET row == CHOOSE r \in S : TRUE
         IN  ToNumeric(row[col]) + Total(S \ {row}, col)

CountWhere(S, col, v) == Cardinality({row \in S : row[col] = v})

QuotaPositions == {"GKP", "DEF", "MID", "FWD", "MNG"}

PoolTeams == {row.team_name : row \in PoolRows}

Quota(pos) == PositionCount(args, pos)

QuotaSum ==
    args.num_gks + args.num_defs + args.num_mids + args.num_atts + args.num_mngs

QuotasMet(S) ==
    \A pos \in QuotaPositions : CountWhere(S, "player_position", pos) = Quota(pos)

TeamsWithinCap(S) ==
    \A team \in PoolTeams : CountWhere(S, "team_name", team) <= 3

WithinBudget(S) == Total(S, "now_cost") <= args.max_value

\* a subset of the pool that satisfies every constraint
FeasibleSquad(S) == WithinBudget(S) /\ QuotasMet(S) /\ TeamsWithinCap(S)

FeasibleSquads == {S \in SUBSET PoolRows : FeasibleSquad(S)}

\* the call returned a squad, and its rows
SquadReturned == pc = "done" /\ result.kind = "squad"

FailureReturned == pc = "done" /\ result.kind = "None"

SquadRows == IF result.kind = "squad" THEN result.rows ELSE <<>>

SquadTotal(col) == SumSeq([k \in 1..Len(SquadRows) |-> SquadRows[k][col]])

SquadCount(col, v) ==
    Cardinality({k \in 1..Len(SquadRows) : SquadRows[k][col] = v})

\* the rows of the caller's table that carry the label i
TableRowsOf(i) == {r \in 1..Len(table) : table[r].id_player = i}

-----------------------------------------------------------------------------
\* C1: whenever a squad is returned, its metric sum is >= the metric sum of
\* every subset of the de-duplicated pool that satisfies the budget cap,
\* every position quota exactly and the team cap.
C1_Optimality ==
    SquadReturned =>
        \A S \in FeasibleSquads : Total(S, "metric") <= SquadTotal("metric")

\* a squad was returned although a feasible squad of smaller metric sum exists
C1_Witness ==
    /\ SquadReturned
    /\ \E S \in FeasibleSquads : Total(S, "metric") < SquadTotal("metric")

\* C2: in every returned squad the number of members of each position with a
\* quota (GKP, DEF, MID, FWD, MNG) equals the quota, neither fewer nor more.
C2_PositionQuotas ==
    SquadReturned =>
        \A pos \in QuotaPositions :
            SquadCount("player_position", pos) = Quota(pos)

\* a squad was returned from a pool holding more players of a position than
\* its positive quota
C2_Witness ==
    /\ SquadReturned
    /\ \E pos \in QuotaPositions :
          /\ Quota(pos) > 0
          /\ CountWhere(PoolRows, "player_position", pos) > Quota(pos)

\* C3: the total now_cost of every returned squad is <= max_value; a total
\* equal to the cap is allowed: when some subset satisfying every constraint
\* costs exactly the cap and the solver decides the program, a squad is
\* returned.
C3_Budget ==
    /\ SquadReturned => SquadTotal("now_cost") <= args.max_value
    /\ ( /\ pc = "done"
         /\ status \in {"Optimal", "Infeasible"}
         /\ \E S \in FeasibleSquads : Total(S, "now_cost") = args.max_value )
       => SquadReturned

\* a returned squad costs exactly the cap while the pool holds a subset that
\* meets the quotas and the team cap, costs more and scores more
C3_Witness ==
    /\ SquadReturned
    /\ SquadTotal("now_cost") = args.max_value
    /\ \E S \in SUBSET PoolRows :
          /\ QuotasMet(S) /\ TeamsWithinCap(S)
          /\ Total(S, "now_cost") > args.max_value
          /\ Total(S, "metric") > SquadTotal("metric")

\* C4: every returned squad has at most 3 members of any team of the pool.
C4_TeamCap ==
    SquadReturned =>
        \A team \in PoolTeams : SquadCount("team_name", team) <= 3

\* a returned squad has 3 members of a team of which the pool has more
C4_Witness ==
    /\ SquadReturned
    /\ \E team \in PoolTeams :
          /\ SquadCount("team_name", team) = 3
          /\ CountWhere(PoolRows, "team_name", team) > 3

\* C5: the number of players of a returned squad equals
\* num_gks + num_defs + num_mids + num_atts + num_mngs.
C5_SquadSize == SquadReturned => Len(SquadRows) = QuotaSum

\* a squad of two or more players was returned from a larger pool
C5_Witness ==
    /\ SquadReturned
    /\ Len(SquadRows) >= 2
    /\ Cardinality(PoolRows) > Len(SquadRows)

\* C6: no player identifier is selected twice, and each player of the pool
\* contributes at most one row to the returned squad.
C6_NoDuplicatePlayers ==
    SquadReturned =>
        /\ \A i \in Range(selected_ids) : Occurrences(selected_ids, i) = 1
        /\ Len(SquadRows) = Len(selected_ids)
        /\ \A k \in 1..Len(SquadRows) :
              \E row \in PoolRows :
                 /\ row.id_player = selected_ids[k]
                 /\ SquadRows[k].player_position = row.player_position
                 /\ SquadRows[k].team_name = row.team_name
                 /\ SquadRows[k].now_cost = ToNumeric(row.now_cost)
                 /\ SquadRows[k].metric = ToNumeric(row.metric)

\* a squad was returned with a player that has several rows in the table
C6_Witness ==
    /\ SquadReturned
    /\ \E i \in Range(selected_ids) : Cardinality(TableRowsOf(i)) > 1

\* the rows of a squad satisfy every constraint
SquadFeasible ==
    /\ SquadTotal("now_cost") <= args.max_value
    /\ \A pos \in QuotaPositions : SquadCount("player_position", pos) = Quota(pos)
    /\ \A team \in PoolTeams : SquadCount("team_name", team) <= 3
    /\ Len(SquadRows) <= Cardinality(PoolRows)

\* C7: on a numeric table the result is the failure value or a squad that
\* satisfies the budget, every quota and the team cap; when no subset of the
\* pool satisfies all constraints the result is the failure value.
C7_FailureOrFeasibleSquad ==
    (pc = "done" /\ TableNumeric) =>
        /\ result.kind \in {"None", "squad"}
        /\ result.kind = "squad" => SquadFeasible
        /\ FeasibleSquads = {} => result.kind = "None"

\* the call failed as infeasible on a pool that has players, some subset of
\* which meets the quotas
C7_Witness ==
    /\ FailureReturned
    /\ status = "Infeasible"
    /\ FeasibleSquads = {}
    /\ \E S \in SUBSET PoolRows : S # {} /\ QuotasMet(S)

\* some position has fewer players in the pool than its quota
Shortage ==
    \E pos \in QuotaPositions :
        CountWhere(PoolRows, "player_position", pos) < Quota(pos)

\* C8: when the pool holds fewer players of some position than that
\* position's quota, the call reports failure and returns no squad.
C8_ShortageFails == (pc = "done" /\ TableNumeric /\ Shortage) => result.kind = "None"

\* the call failed as infeasible with a position short of players although
\* the pool has a player of that position
C8_Witness ==
    /\ FailureReturned
    /\ status = "Infeasible"
    /\ \E pos \in QuotaPositions :
          /\ CountWhere(PoolRows, "player_position", pos) < Quota(pos)
          /\ CountWhere(PoolRows, "player_position", pos) > 0

\* the subsets of the pool that satisfy the quotas and the team cap
QuotaSquads == {S \in SUBSET PoolRows : QuotasMet(S) /\ TeamsWithinCap(S)}

\* max_value is below the cost of the cheapest such subset
BudgetTooTight ==
    /\ QuotaSquads # {}
    /\ \A S \in QuotaSquads : args.max_value < Total(S, "now_cost")

\* C9: when max_value is below the minimum total cost over the subsets that
\* satisfy the position quotas and the team cap, the call reports failure.
C9_BudgetTooTightFails ==
    (pc = "done" /\ TableNumeric /\ BudgetTooTight) => result.kind = "None"

\* the call failed as infeasible only because of the budget cap
C9_Witness ==
    /\ FailureReturned
    /\ status = "Infeasible"
    /\ TableNumeric
    /\ BudgetTooTight

\* C10: infeasibility and solver error are reported as two distinct outcomes,
\* both distinct from an input error: a solve that ended without deciding the
\* program is not reported by the value that reports infeasibility (None),
\* nor by the input error, nor by a squad.
C10_DistinctFailureKinds ==
    (pc = "done" /\ status = "Not Solved") =>
        result.kind \notin {"None", "ValueError", "squad"}

\* C11: invoked with an empty player pool the call reports failure for every
\* configuration of quotas, the one with every quota 0 included; it never
\* returns a squad.
C11_EmptyPoolFails ==
    (pc = "done" /\ table = <<>>) => result.kind = "None"

\* C12: when the cost or the metric of some player is not coercible to a
\* number, the call ends in the input error (the ValueError of pd.to_numeric)
\* and the solver has not been invoked during it.
C12_NonNumericRejected ==
    (pc = "done" /\ ~TableNumeric) =>
        /\ result = [kind |-> "ValueError"]
        /\ solves = 0
        /\ status = "Not Run"
        /\ problem = NoProblem

\* a table in which one player's cells parse and another's do not
C12_Witness ==
    /\ pc = "done"
    /\ result.kind = "ValueError"
    /\ solves = 0
    /\ \E r \in 1..Len(table) :
          IsNumeric(table[r].now_cost) /\ ~IsNumeric(table[r].metric)
    /\ \E r \in 1..Len(table) :
          table[r].now_cost.kind = "string" /\ IsNumeric(table[r].now_cost)
             /\ IsNumeric(table[r].metric)

\* C13: the call leaves the caller's player table as it was, on every path
\* (squad, None, ValueError): every step keeps the rows, columns, labels and
\* cells of the table, although the function re-indexes and coerces its df.
C13_CallerTableUnchanged == [][table' = table]_vars

\* a call that returned players and whose own df differs from the caller's
\* table: a string cell of the table is a number in df
C13_Witness ==
    /\ pc = "done"
    /\ result.kind = "squad"
    /\ result.rows # <<>>
    /\ \E r \in 1..Len(table) :
          /\ table[r].now_cost.kind = "string"
          /\ df[r].now_cost = ToNumeric(table[r].now_cost)
          /\ "round" \in DOMAIN table[r] /\ "round" \notin DOMAIN df[r]

\* C14: each record of a returned squad is a record of the input pool with
\* its attributes unchanged, the identifier id_player included (and position,
\* team, cost and metric); the records are those of the players whose
\* decision variable is 1.
C14_SquadRecordsKeepAttributes ==
    SquadReturned =>
        /\ Len(SquadRows) = Len(selected_ids)
        /\ \A k \in 1..Len(SquadRows) :
              /\ "id_player" \in DOMAIN SquadRows[k]
              /\ SquadRows[k].id_player = selected_ids[k]
              /\ \E row \in PoolRows :
                    /\ row.id_player = SquadRows[k].id_player
                    /\ row.player_position = SquadRows[k].player_position
                    /\ row.team_name = SquadRows[k].team_name
                    /\ ToNumeric(row.now_cost) = SquadRows[k].now_cost
                    /\ ToNumeric(row.metric) = SquadRows[k].metric

\* C15: the team cap is a value of the caller's configuration: for the cap c
\* the caller wants (3 when none is given) every returned squad has at most c
\* players of any one team, and the squad is an optimum over the squads that
\* obey the budget cap, the quotas and cap c.
TeamsWithin(S, c) ==
    \A team \in PoolTeams : CountWhere(S, "team_name", team) <= c

SquadsUnderCap(c) ==
    {S \in SUBSET PoolRows : WithinBudget(S) /\ QuotasMet(S) /\ TeamsWithin(S, c)}

C15_TeamCapConfigurable ==
    /\ SquadReturned =>
          \A team \in PoolTeams : SquadCount("team_name", team) <= team_cap
    /\ ( /\ pc = "done"
         /\ status \in {"Optimal", "Infeasible"}
         /\ SquadsUnderCap(team_cap) # {} ) =>
          /\ SquadReturned
          /\ \A S \in SquadsUnderCap(team_cap) :
                Total(S, "metric") <= SquadTotal("metric")

\* the program handed to the solver carries the caller's budget cap, the
\* caller's quota for each of the five positions and the cap of 3 per team
SolvedAsAsked ==
    /\ \E k \in 1..Len(problem.constraints) :
          problem.constraints[k].name = <<"Total_value">>
    /\ \A pos \in QuotaPositions :
          \E k \in 1..Len(problem.constraints) :
             problem.constraints[k].name = <<"Total", pos>>
    /\ \A team \in PoolTeams :
          \E k \in 1..Len(problem.constraints) :
             problem.constraints[k].name = <<"Team", team>>
    /\ \A k \in 1..Len(problem.constraints) :
          LET c == problem.constraints[k]
          IN  /\ c.name[1] = "Total_value" =>
                    c.sense = "<=" /\ c.rhs = args.max_value
              /\ c.name[1] = "Total" =>
                    c.sense = "==" /\ c.rhs = Quota(c.name[2])
              /\ c.name[1] = "Team" => c.sense = "<=" /\ c.rhs = 3

SingleSolve ==
    pc = "done" =>
        /\ solves <= 1
        /\ solves = 1 => SolvedAsAsked
        /\ status # "Optimal" =>
              result.kind \in {"None", "ValueError"} /\ selected_ids = <<>>
        /\ status = "Infeasible" => FeasibleSquads = {}

\* C16: within one call the solver is run at most once, on the constraints
\* built from the caller's arguments; when that solve is not optimal the call
\* returns the failure value without a second solve, and no step alters the
\* budget cap or the quotas or solves under other ones.
C16_SolvedOnceAsAsked ==
    [](SingleSolve) /\ [][args' = args /\ solves' <= solves + 1]_vars

\* a call that failed as infeasible after its one solve although the quotas
\* and the team cap can be met: a second solve under a larger budget cap
\* would have found a squad
C16_Witness ==
    /\ pc = "done"
    /\ solves = 1
    /\ status = "Infeasible"
    /\ result.kind = "None"
    /\ BudgetTooTight

\* what a call's own table and arguments determine: failure when a cell does
\* not parse or no subset of the pool meets the budget cap, the quotas and
\* the team cap; else success with the greatest metric sum of such a subset
PoolOf(t) == {KeepCols(t[r]) : r \in 1..Len(t)}

SquadsOf(t, a) ==
    {S \in SUBSET PoolOf(t) :
        /\ Total(S, "now_cost") <= a.max_value
        /\ \A pos \in QuotaPositions :
              CountWhere(S, "player_position", pos) = PositionCount(a, pos)
        /\ \A row \in PoolOf(t) :
              CountWhere(S, "team_name", row.team_name) <= 3}

OutcomeOf(t, a) ==
    IF \E row \in PoolOf(t) : ~IsNumeric(row.now_cost) \/ ~IsNumeric(row.metric)
    THEN [success |-> FALSE, metric |-> 0]
    ELSE IF SquadsOf(t, a) = {} THEN [success |-> FALSE, metric |-> 0]
    ELSE [success |-> TRUE,
          metric |-> CHOOSE m \in {Total(S, "metric") : S \in SquadsOf(t, a)} :
                        \A S \in SquadsOf(t, a) : Total(S, "metric") <= m]

CallOutcome(c) ==
    IF calls[c].result.kind = "squad"
    THEN [success |-> TRUE,
          metric |-> SumSeq([k \in 1..Len(calls[c].result.rows) |->
                                calls[c].result.rows[k].metric])]
    ELSE [success |-> FALSE, metric |-> 0]

\* C17: the outcome of a call (success or failure and, on success, the
\* metric sum of the squad) is a function of that call's table and arguments
\* alone, whatever other calls ran before it or run interleaved with it on
\* other pools; a solve that CBC left undecided is set aside.
C17_OutcomeOfOwnArguments ==
    \A c \in DOMAIN calls :
        (calls[c].pc = "done" /\ calls[c].status # "Not Solved") =>
            CallOutcome(c) = OutcomeOf(calls[c].table, calls[c].args)

\* a call returned a squad of positive metric sum while another call, on
\* another pool and with another budget cap, is between the solver's run
\* and its return
C17_Witness ==
    \E c \in DOMAIN calls, o \in DOMAIN calls :
        /\ calls[c].pc = "done"
        /\ CallOutcome(c).success /\ CallOutcome(c).metric > 0
        /\ calls[o].pc = "ran"
        /\ calls[o].table # calls[c].table
        /\ calls[o].args # calls[c].args
        /\ OutcomeOf(calls[o].table, calls[o].args)
              # OutcomeOf(calls[c].table, calls[c].args)

\* the pool holds exactly quota-many players of every position, at most 3 of
\* any team, and costs no more than the budget cap
ExactPool ==
    /\ \A pos \in QuotaPositions :
          CountWhere(PoolRows, "player_position", pos) = Quota(pos)
    /\ TeamsWithinCap(PoolRows)
    /\ WithinBudget(PoolRows)

\* C18: when the pool holds exactly quota-many players at every position (so
\* its size is the sum of the quotas), no team has more than 3 players in it
\* and its total cost is within the budget cap, the call (its solve decided)
\* returns a squad, and the squad is the entire pool.
C18_ExactPoolReturnedWhole ==
    ( /\ pc = "done"
      /\ status \in {"Optimal", "Infeasible"}
      /\ TableNumeric
      /\ ExactPool ) =>
        /\ SquadReturned
        /\ Cardinality(PoolRows) = QuotaSum
        /\ Len(SquadRows) = Cardinality(PoolRows)
        /\ Range(selected_ids) = {row.id_player : row \in PoolRows}
        /\ SquadTotal("now_cost") = Total(PoolRows, "now_cost")
        /\ SquadTotal("metric") = Total(PoolRows, "metric")

\* such a pool of three players of one team whose cost is the budget cap,
\* one of them with metric 0, returned whole
C18_Witness ==
    /\ SquadReturned
    /\ TableNumeric
    /\ ExactPool
    /\ Cardinality(PoolRows) = 3
    /\ \E team \in PoolTeams : CountWhere(PoolRows, "team_name", team) = 3
    /\ Total(PoolRows, "now_cost") = args.max_value
    /\ \E row \in PoolRows : ToNumeric(row.metric) = 0
    /\ Len(SquadRows) = 3

\* A and B compete for the last open slot of their position: they are of the
\* same position and team, A has the higher metric, the rest of the pool with
\* B meets the quotas, the team cap and the budget cap, and A's cost pushes
\* the total over the budget cap, with the rest of the pool as in any other
\* squad that meets the quotas
LastSlotRivals(A, B) ==
    LET rest == PoolRows \ {A, B}
    IN  /\ A # B
        /\ A.player_position = B.player_position
        /\ A.team_name = B.team_name
        /\ ToNumeric(A.metric) > ToNumeric(B.metric)
        /\ FeasibleSquad(rest \cup {B})
        /\ QuotasMet(rest \cup {A})
        /\ ~WithinBudget(rest \cup {A})
        /\ \A S \in SUBSET PoolRows :
              (A \in S /\ QuotasMet(S)) => ~WithinBudget(S)

\* C19: constraints take precedence over the metric: when A and B compete for
\* the last open slot and only A's cost breaks the budget cap, the call (its
\* solve decided) returns the squad with B and without A; it neither returns
\* the squad over budget nor fails.
C19_BudgetBeforeMetric ==
    (pc = "done" /\ status \in {"Optimal", "Infeasible"} /\ TableNumeric) =>
        \A A \in PoolRows, B \in PoolRows :
            LastSlotRivals(A, B) =>
                /\ SquadReturned
                /\ B.id_player \in Range(selected_ids)
                /\ A.id_player \notin Range(selected_ids)
                /\ Range(selected_ids)
                      = {row.id_player : row \in (PoolRows \ {A})}
                /\ SquadTotal("now_cost") <= args.max_value

\* two forwards compete for the last of two forward slots, and the squad
\* returned has the one of lower metric
C19_Witness ==
    /\ SquadReturned
    /\ TableNumeric
    /\ args.num_atts = 2
    /\ \E A \in PoolRows, B \in PoolRows :
          /\ LastSlotRivals(A, B)
          /\ A.player_position = "FWD"
          /\ B.id_player \in Range(selected_ids)
          /\ A.id_player \notin Range(selected_ids)

\* C20: a player whose position is not in the optimizer's position table (an
\* 'MNG' player in the revisions whose table lists only GKP, DEF, MID and
\* FWD) is never part of a returned squad, so the size of the squad is the
\* sum of the quotas also when the pool holds such players.
C20_UnlistedPositionsLeftOut ==
    SquadReturned =>
        /\ \A k \in 1..Len(SquadRows) :
              SquadRows[k].player_position \in Range(PositionsDraft2)
        /\ Len(SquadRows)
              = args.num_gks + args.num_defs + args.num_mids + args.num_atts

\* the subsets of the pool that meet the budget cap, the team cap and the
\* quotas of the four playing positions
SquadsOfPlayers ==
    {S \in SUBSET PoolRows :
        /\ WithinBudget(S)
        /\ TeamsWithinCap(S)
        /\ \A pos \in {"GKP", "DEF", "MID", "FWD"} :
              CountWhere(S, "player_position", pos) = Quota(pos)}

\* C21: with the default num_mngs = 0 no player of position 'MNG' is in a
\* returned squad, and the manager quota of 0 does not by itself cause
\* failure: a pool without any 'MNG' player that holds a squad meeting the
\* other constraints yields a squad (the solve being decided).
C21_NoManagersByDefault ==
    args.num_mngs = 0 =>
        /\ SquadReturned =>
              \A k \in 1..Len(SquadRows) : SquadRows[k].player_position # "MNG"
        /\ ( /\ pc = "done"
             /\ status \in {"Optimal", "Infeasible"}
             /\ TableNumeric
             /\ CountWhere(PoolRows, "player_position", "MNG") = 0
             /\ SquadsOfPlayers # {} ) => SquadReturned

\* a squad was returned under num_mngs = 0 from a pool that holds a manager
\* of positive metric whose cost the budget cap would still admit
C21_Witness ==
    /\ SquadReturned
    /\ args.num_mngs = 0
    /\ Len(SquadRows) > 0
    /\ \E row \in PoolRows :
          /\ row.player_position = "MNG"
          /\ ToNumeric(row.metric) > 0
          /\ SquadTotal("now_cost") + ToNumeric(row.now_cost) <= args.max_value

\* the rows of one identifier agree on every kept column
RowsAgree ==
    \A r \in 1..Len(table), q \in 1..Len(table) :
        table[r].id_player = table[q].id_player
            => KeepCols(table[r]) = KeepCols(table[q])

\* the coefficient of variable v in the constraint of the given name
CoefIn(name, v) ==
    LET k == CHOOSE j \in 1..Len(problem.constraints) :
                problem.constraints[j].name = name
    IN  problem.constraints[k].coef[v]

\* C22: when several rows of the table carry the same identifier and agree on
\* all kept columns, the optimizer treats them as one candidate: one decision
\* variable per identifier, and the player counts once toward the cost, the
\* position quota and the team cap and appears once in the squad.
C22_OneCandidatePerPlayer ==
    (pc = "done" /\ solves = 1 /\ RowsAgree) =>
        /\ problem.variables = {table[r].id_player : r \in 1..Len(table)}
        /\ Len(df) = Cardinality(problem.variables)
        /\ \A row \in PoolRows :
              /\ CoefIn(<<"Total_value">>, row.id_player) = ToNumeric(row.now_cost)
              /\ CoefIn(<<"Total", row.player_position>>, row.id_player) = 1
              /\ CoefIn(<<"Team", row.team_name>>, row.id_player) = 1
              /\ problem.objective[row.id_player] = ToNumeric(row.metric)
        /\ Len(selected_ids) = Cardinality(Range(selected_ids))
        /\ SquadReturned => Len(SquadRows) = Len(selected_ids)

\* a squad was returned from a table of two players of which the selected
\* one has two rows
C22_Witness ==
    /\ SquadReturned
    /\ Cardinality(PoolRows) = 2
    /\ \E i \in Range(selected_ids) : Cardinality(TableRowsOf(i)) = 2
    /\ Len(SquadRows) = 1

\* C23: when select_fpl_squad returns the failure value, main never writes a
\* squad file and never sends the squad e-mail: a file is written only after
\* a successful selection, and the e-mail is sent only after the file was
\* written.
C23_NoOutputWithoutSquad ==
    /\ [](csv # <<>> => result.kind = "squad")
    /\ [](email # <<>> => (csv # <<>> /\ result.kind = "squad"))
    /\ [][result.kind = "None" => (csv' = csv /\ email' = email)]_vars

\* select_fpl_squad returned None, main went on to save_selected_squad and
\* ended there with a TypeError: no file, no e-mail
C23_Witness ==
    /\ pc = "crashed"
    /\ result.kind = "None"
    /\ raised = "TypeError"
    /\ revision = "v2r0"
    /\ csv = <<>>
    /\ email = <<>>

\* the fetches that are over
Done == {k \in 1..Len(fetched) : fetched[k].state = "done"}

\* C24: get_gameweek_history never propagates a failure of its request: a
\* request that timed out, could not connect or got an HTTP error status
\* gives an empty table (and a printed message), a successful request gives
\* the history rows of that player.
C24_RequestFailuresGiveEmptyTable ==
    \A k \in Done :
        /\ fetched[k].ending \in RequestExceptions =>
              /\ fetched[k].kind = "frame"
              /\ fetched[k].rows = <<>>
              /\ <<player_ids[k], fetched[k].ending>> \in printed
        /\ fetched[k].ending = "ok" =>
              /\ fetched[k].kind = "frame"
              /\ fetched[k].rows = History(player_ids[k])
              /\ \A j \in 1..Len(fetched[k].rows) :
                    fetched[k].rows[j].element = player_ids[k]

\* one request of each failing kind and a successful one with rows are over
C24_Witness ==
    /\ \A exc \in RequestExceptions :
          \E k \in Done : fetched[k].ending = exc /\ fetched[k].kind = "frame"
    /\ \E k \in Done : fetched[k].ending = "ok" /\ fetched[k].rows # <<>>

\* the rows the fetch of the k-th id contributes
Contribution(k) ==
    IF fetched[k].ending = "ok" THEN History(player_ids[k]) ELSE <<>>

\* C25: every id of player_ids is fetched exactly once, on at most 5 workers
\* at a time, and the table returned is the concatenation of the histories
\* in the order of player_ids whatever the order of completion; a failed
\* fetch contributes no rows and leaves the rows of the others as they are.
C25_HistoriesInInputOrder ==
    /\ Cardinality(Running) <= MaxWorkers
    /\ requested = SubSeq(player_ids, 1, started)
    /\ \A i, j \in 1..Len(requested) : requested[i] = requested[j] => i = j
    /\ fpc = "returned" =>
          /\ started = Len(player_ids)
          /\ returned.kind = "tables"
          /\ returned.df_points =
                Flatten([k \in 1..Len(player_ids) |-> Contribution(k)])

\* six players were fetched, five at a time, one fetch overtook another,
\* one failed and later players still have their rows in the table
C25_Witness ==
    /\ fpc = "returned"
    /\ Len(player_ids) > MaxWorkers
    /\ overtaken
    /\ \E k \in 1..Len(player_ids) :
          /\ fetched[k].ending \in RequestExceptions
          /\ \E j \in (k + 1)..Len(player_ids) : Contribution(j) # <<>>
    /\ returned.df_points # <<>>

\* C26: when the bootstrap-static request fails, get_fpl_data reports the
\* error and ends without returning a table and without sending a request
\* for a player's history.
C26_BootstrapFailureEndsFetch ==
    bootstrap \in RequestExceptions =>
        /\ fpc = "raised"
        /\ returned.kind = "UnboundLocalError"
        /\ <<"FPL data", bootstrap>> \in printed
        /\ requested = <<>>
        /\ started = 0

\* the bootstrap-static request got an HTTP error status
C26_Witness ==
    /\ bootstrap = "HTTPError"
    /\ fpc = "raised"
    /\ requested = <<>>

\* the call of the table function fn has returned
FrameReturned(fn) == frame_call.fn = fn /\ frame_out.kind = "frame"

\* the largest round of the table of the call (of a table with rows)
max_round ==
    CHOOSE r \in 0..MaxRound :
        /\ \A k \in 1..Len(frame_call.df) : frame_call.df[k].round.v <= r
        /\ \/ frame_call.df = <<>> /\ r = 0
           \/ \E k \in 1..Len(frame_call.df) : frame_call.df[k].round.v = r

\* the row is of one of the n most recent rounds of the table
MostRecent(row, n) ==
    max_round - n < row.round.v /\ row.round.v <= max_round

\* the rows of the table of the call that are of the n most recent rounds
RecentRows(n) ==
    LET Recent(row) == MostRecent(row, n)
    IN  SelectSeq(frame_call.df, Recent)

\* the rows among them of one player
RecentRowsOf(element, n) ==
    LET Mine(row) == row.element = element
    IN  SelectSeq(RecentRows(n), Mine)

\* C27: calc_points_per_game gives each player the arithmetic mean of
\* total_points over exactly the player's rows of the num_gws most recent
\* rounds (max_round - num_gws < r <= max_round); rows of older rounds are
\* removed, and a player without a row in the window does not appear.
C27_MeanOverRecentRounds ==
    FrameReturned("calc_points_per_game") =>
        LET n == frame_call.num_gws
            out == frame_out.rows
        IN  /\ [k \in 1..Len(out) |->
                   [element |-> out[k].element, round |-> out[k].round,
                    total_points |-> out[k].total_points]] = RecentRows(n)
            /\ \A k \in 1..Len(out) :
                  LET mine == RecentRowsOf(out[k].element, n)
                  IN  /\ out[k].mean_ppg.den = Len(mine)
                      /\ out[k].mean_ppg.num =
                            SumSeq([j \in 1..Len(mine) |->
                                       mine[j].total_points])
            /\ \A e \in 1..MaxElements :
                  RecentRowsOf(e, n) = <<>> =>
                      \A k \in 1..Len(out) : out[k].element # e

\* a player has two rows in the window whose mean is not a whole number,
\* another player has only an older row, which is removed
C27_Witness ==
    /\ FrameReturned("calc_points_per_game")
    /\ Len(frame_out.rows) < Len(frame_call.df)
    /\ \E k \in 1..Len(frame_out.rows) :
          /\ frame_out.rows[k].mean_ppg.den = 2
          /\ frame_out.rows[k].mean_ppg.num % 2 = 1
    /\ \E k \in 1..Len(frame_call.df) :
          \A j \in 1..Len(frame_out.rows) :
              frame_out.rows[j].element # frame_call.df[k].element

\* C28: in v1r2 and in v1r3, transform_data with rounds_to_sub = n keeps the
\* points rows of exactly the n most recent rounds (max_round - n < r <=
\* max_round) and no row of an older round.
C28_KeepsNMostRecentRounds ==
    FrameReturned("transform_data") =>
        frame_out.rows = RecentRows(frame_call.rounds_to_sub)

\* the row passes every filter of the dictionary
Passes(row, dict) ==
    \A k \in 1..Len(dict) :
        /\ ~row[dict[k][1]].nan
        /\ row[dict[k][1]].v >= dict[k][2].v

\* the filters of the call, read as a dictionary: none when left out
GivenDict == IF frame_call.given THEN frame_call.filters.dict ELSE <<>>

\* the dictionary with its keys in the other order
Reversed(dict) == [k \in 1..Len(dict) |-> dict[Len(dict) + 1 - k]]

\* C29: filter_dataframe returns exactly the rows whose value in every
\* filter column is >= the filter value (a missing value excludes the row),
\* in their original order; without filters it returns df unchanged;
\* filtering twice equals filtering once, and the order of the filter
\* columns does not matter.
C29_FilterDataframe ==
    FrameReturned("filter_dataframe") =>
        LET Kept(row) == Passes(row, GivenDict)
            rev == frame_call.rev
            again == [none |-> FALSE, dict |-> GivenDict]
            other == [none |-> FALSE, dict |-> Reversed(GivenDict)]
        IN  /\ frame_out.rows = SelectSeq(frame_call.df, Kept)
            /\ GivenDict = <<>> => frame_out.rows = frame_call.df
            /\ FilterDataframe(rev, frame_out.rows, again) = frame_out.rows
            /\ FilterDataframe(rev, frame_call.df, other) = frame_out.rows

\* two filter columns: a row is dropped for a missing value, another for a
\* value under the filter, and two rows are kept, one of them on the bound
C29_Witness ==
    /\ FrameReturned("filter_dataframe")
    /\ Len(GivenDict) = 2
    /\ Len(frame_out.rows) >= 1
    /\ Len(frame_out.rows) < Len(frame_call.df)
    /\ \E k \in 1..Len(frame_call.df) : frame_call.df[k].a.nan
    /\ \E k \in 1..Len(frame_out.rows), j \in 1..2 :
          frame_out.rows[k][GivenDict[j][1]] = GivenDict[j][2]

\* the two rows differ in the column and in no other
DifferOnlyIn(col) ==
    /\ exp_call.rows[1][col] # exp_call.rows[2][col]
    /\ exp_call.rows[2] =
          [exp_call.rows[1] EXCEPT ![col] = exp_call.rows[2][col]]

\* C30: the points lost for goals conceded come from the row's
\* expected_goals_conceded: two GKP or DEF rows (of a player with minutes)
\* that differ only in expected_goals_conceded get different
\* expected_points, and two rows that differ only in expected_assists
\* differ in expected_points by the assist term alone, 3 points per
\* expected assist times the two multipliers.
C30_GoalsConcededFromOwnColumn ==
    exp_out.kind = "column" =>
        LET r1 == exp_call.rows[1]
            r2 == exp_call.rows[2]
            p1 == exp_out.expected_points[1]
            p2 == exp_out.expected_points[2]
        IN  /\ (/\ DifferOnlyIn("expected_goals_conceded")
                /\ r1.player_position \in {"GKP", "DEF"}
                /\ r1.minutes > 0)
               => p1 # p2
            /\ DifferOnlyIn("expected_assists")
               => p1 - p2 =
                     FixtureMultiplier(exp_call.rev, r1.mean_strength)
                     * (r1.minutes \div 45) * 2000 * 3
                     * (r1.expected_assists - r2.expected_assists)

====
